---------------------------- MODULE Spec2Model ----------------------------
(***************************************************************************)
(* Xerox FTP -> Egnyte gateway.                                            *)
(*                                                                         *)
(* Two programs of the repository are modelled, each as its own            *)
(* specification over its own variables:                                   *)
(*                                                                         *)
(*   Spec       the production gateway (src/unnamed/part_001, lines 1-629):*)
(*              the session registry activeConnections, the 'login'        *)
(*              handler, the idle timer, the STOR relay, the               *)
(*              auto-disconnect timer, the close/error/end handlers and    *)
(*              the periodic sweep.                                        *)
(*   SpecQueue  the debounced upload coordinator (src/unnamed/part_000):   *)
(*              uploadQueue, processTimer, startProcessTimer and the async *)
(*              processUploadQueue, with its login/STOR/close handlers.    *)
(*                                                                         *)
(* JavaScript runs every handler to completion (or to its next await), so  *)
(* one action is one handler run, or one segment of an async function      *)
(* between two awaits.                                                     *)
(***************************************************************************)
EXTENDS Integers, Sequences, FiniteSets, TLC

(***************************************************************************)
(* Bounds of the model.                                                    *)
(***************************************************************************)
\* connection objects of the production gateway that are in use at the same time
\* (an object nothing refers to any more makes room for a new one, see NewConnection)
MaxConn == 2
\* largest configured CONFIG.FTP.MAX_CONNECTIONS that is explored
MaxCap == 2

\* CONFIG.FTP.IDLE_TIMEOUT, in ticks of the clock of SpecTimed
IdlePeriod == 2

Conns == 1..MaxConn
NoConn == 0

(***************************************************************************)
(* The credential table (user-mapping.json, loaded once at start-up).      *)
(***************************************************************************)
userMappings == [alice |-> "s1", bob |-> "s2"]
KnownUsers == DOMAIN userMappings
\* usernames a device may offer: the known ones and one that is not in the table
Usernames == KnownUsers \cup {"eve"}
Passwords == {"s1", "s2"}
NoUser == "-"

VARIABLES
    maxConnections,     \* CONFIG.FTP.MAX_CONNECTIONS
    activeConnections,  \* the Map username -> connection (NoConn: no entry for the key)
    connState,          \* per connection: "unauth", "open", "closing", "dead"
    connUser,           \* per connection: the username of its last login attempt
    loginReply,         \* per connection: how its last login was answered
    idleTimer,          \* per connection: number of armed idle timers
    uploading,          \* per connection: 1 if uploadFile calls are being awaited, else 0
    autoDisconnect,     \* per connection: 1 if auto-disconnect timers are pending, else 0
    idleAge,            \* per connection: ticks since the timer idleTimer names was armed
    quietFor            \* per connection: ticks since its login or last traffic event
                        \* (both count up to IdlePeriod while an idle timer is armed, and
                        \* are 0 when none is; time passes only in SpecTimed)

gvars == <<maxConnections, activeConnections, connState, connUser, loginReply,
           idleTimer, uploading, autoDisconnect, idleAge, quietFor>>

\* files the devices send to the debounced coordinator, numbered in arrival order
MaxFiles == 3
\* connection objects handed to the debounced coordinator's 'login' handler
MaxQConn == 2
\* IDLE_TIMEOUT of the debounced coordinator, in ticks of the clock of SpecQueueTimed
QuietPeriod == 2
\* 'disconnect' events handled by the disconnect-triggered variant
MaxDisconnects == 3

QConns == 1..MaxQConn
Files == 1..MaxFiles

\* userMappings[username].egnytePath
EgnytePath == [alice |-> "/Shared/alice", bob |-> "/Shared/bob"]

VARIABLES
    userSessions,   \* the Map connection -> session (its username; NoUser: no entry)
    qState,         \* per connection: "unauth", "open", "closed"
    uploadQueue,    \* the array uploadQueue: items in arrival order
    processTimer,   \* the handle processTimer: 0 (null) or 1 (a timer handle)
    armedTimers,    \* debounce timers that are armed (set and not yet fired or cleared)
    received,       \* files received so far; file f is the f-th STOR
    localFile,      \* per file: "none", "staged" (in the scan directory), "deleted"
    remote,         \* per file: outcome of its last uploadToEgnyte: "none", "ok", "failed"
    attempts,       \* per file: uploadToEgnyte calls made for it
    drains,         \* the runs of processUploadQueue, in start order (see StartDrain)
    debounceAge,    \* ticks since the armed debounce timer was set
    sinceEnqueue,   \* ticks since the last enqueue (both count up to QuietPeriod while
                    \* a debounce timer is armed, and are 0 when none is; time passes
                    \* only in SpecQueueTimed)
    storExit        \* how the last run of the coordinator's STOR handler ended:
                    \* "none", "returned", "threw" (the exception left the handler and
                    \* its emitter contained it) or "crashed" (nothing contained it)

qvars == <<userSessions, qState, uploadQueue, processTimer, armedTimers, received,
           localFile, remote, attempts, drains, debounceAge, sinceEnqueue, storExit>>

\* The upload client of the production gateway (EgnyteClient)
VARIABLES
    client          \* the call of uploadFile under way: where it stands (pc), whether
                    \* the local file is there (local), what the remote answers to the
                    \* directory check, the directory creation and the upload request
                    \* (check, create, request), and what the call did so far (sent,
                    \* warned)

cvars == <<client>>

\* The disconnect-triggered variant (simple-ftp-server.js)
VARIABLES
    simpleQueue,    \* its uploadQueue: the items pushed by 'upload' and not yet removed
    simpleTimers,   \* the armed setTimeout(processUploads, 2000) timers
    simpleRuns,     \* the runs of processUploads, in start order
    simpleAttempts, \* per file, the calls of uploadToEgnyte made for it
    simpleLocal,    \* per file, the state of the local file
    simpleReceived, \* the files received so far; files are numbered by arrival
    disconnects     \* the 'disconnect' events so far

svars == <<simpleQueue, simpleTimers, simpleRuns, simpleAttempts, simpleLocal,
           simpleReceived, disconnects>>

vars == <<gvars, qvars, cvars, svars>>

----------------------------------------------------------------------------
(***************************************************************************)
(* Production gateway: helpers.                                            *)
(***************************************************************************)

\* a staleness test that also takes a connection that is being closed for dead
IsStale_ClosingToo(c) == connState[c] \in {"closing", "dead"}

\* connInfo.connection.destroyed || connInfo.connection.readyState === 'closed'
IsStale(c) == connState[c] = "dead"

\* the stale-entry loop at the top of the 'login' handler
PruneStale(reg) ==
    [u \in Usernames |-> IF reg[u] # NoConn /\ IsStale(reg[u]) THEN NoConn ELSE reg[u]]

\* activeConnections.size
Size(reg) == Cardinality({u \in Usernames : reg[u] # NoConn})

\* LoginOutcome without the unknown-user check
LoginOutcome_NoUserCheck(reg, u, p) ==
    IF Size(reg) >= maxConnections THEN "busy"
    ELSE IF u \in KnownUsers /\ userMappings[u] # p THEN "badpw"
    ELSE "ok"

\* LoginOutcome with the capacity test off by one (> for >=)
LoginOutcome_OffByOne(reg, u, p) ==
    IF Size(reg) > maxConnections THEN "busy"
    ELSE IF u \notin KnownUsers THEN "notfound"
    ELSE IF userMappings[u] # p THEN "badpw"
    ELSE "ok"

\* the chain of checks of the 'login' handler, on the pruned registry
LoginOutcome(reg, u, p) ==
    IF Size(reg) >= maxConnections THEN "busy"
    ELSE IF u \notin KnownUsers THEN "notfound"
    ELSE IF userMappings[u] # p THEN "badpw"
    ELSE "ok"

\* connection.close(): an open connection starts closing, any other is left as it is
Close(st, c) ==
    IF c # NoConn /\ st[c] = "open" THEN [st EXCEPT ![c] = "closing"] ELSE st

\* activeConnections.delete(username)
Delete(reg, u) == [reg EXCEPT ![u] = NoConn]

\* DisconnectPrevious without the call of existingConn.connection.close()
DisconnectPrevious_NoClose(st, reg, u) == st

\* the duplicate-user branch: close the previous connection of u
DisconnectPrevious(st, reg, u) == Close(st, reg[u])

\* clearTimeout(idleTimer): cancels the timer the handle names, if still armed
ClearIdle(n) == IF n > 0 THEN n - 1 ELSE 0

\* ResetIdle that arms a new timer and leaves the armed one
ResetIdle_NoClear(n) == n + 1

\* clearTimeout(idleTimer) followed by idleTimer = setTimeout(...)
ResetIdle(n) == ClearIdle(n) + 1

GInit ==
    /\ maxConnections \in 1..MaxCap
    /\ activeConnections = [u \in Usernames |-> NoConn]
    /\ connState = [c \in Conns |-> "unauth"]
    /\ connUser = [c \in Conns |-> NoUser]
    /\ loginReply = [c \in Conns |-> "none"]
    /\ idleTimer = [c \in Conns |-> 0]
    /\ uploading = [c \in Conns |-> 0]
    /\ autoDisconnect = [c \in Conns |-> 0]
    /\ idleAge = [c \in Conns |-> 0]
    /\ quietFor = [c \in Conns |-> 0]

\* a 'login' handler that runs the duplicate-user branch before the password check
Login_DuplicateFirst(c, u, p) ==
    /\ connState[c] = "unauth"
    /\ LET pruned == PruneStale(activeConnections)
           outcome == LoginOutcome(pruned, u, p)
           early == outcome \in {"ok", "badpw"}
       IN  /\ connUser' = [connUser EXCEPT ![c] = u]
           /\ loginReply' = [loginReply EXCEPT ![c] = outcome]
           /\ connState' = [IF early THEN DisconnectPrevious(connState, pruned, u)
                                     ELSE connState
                              EXCEPT ![c] = IF outcome = "ok" THEN "open" ELSE @]
           /\ activeConnections' = IF outcome = "ok" THEN [pruned EXCEPT ![u] = c]
                                    ELSE IF early THEN Delete(pruned, u) ELSE pruned
           /\ idleTimer' = [idleTimer EXCEPT ![c] = IF outcome = "ok" THEN 1 ELSE @]
    /\ UNCHANGED <<maxConnections, uploading, autoDisconnect>>
    /\ idleAge' = [idleAge EXCEPT ![c] = IF loginReply'[c] = "ok" THEN 0 ELSE @]
    /\ quietFor' = [quietFor EXCEPT ![c] = IF loginReply'[c] = "ok" THEN 0 ELSE @]
    /\ UNCHANGED <<qvars, cvars, svars>>

(***************************************************************************)
(* ftpServer.on('login', ...): prune, capacity, unknown user, password,    *)
(* duplicate user, record, arm the idle timer, resolve.                    *)
(***************************************************************************)
Login(c, u, p) ==
    /\ connState[c] = "unauth"
    /\ LET pruned == PruneStale(activeConnections)
           outcome == LoginOutcome(pruned, u, p)
       IN  /\ connUser' = [connUser EXCEPT ![c] = u]
           /\ loginReply' = [loginReply EXCEPT ![c] = outcome]
           /\ IF outcome = "ok"
              THEN /\ connState' = [DisconnectPrevious(connState, pruned, u) EXCEPT ![c] = "open"]
                   /\ activeConnections' = [Delete(pruned, u) EXCEPT ![u] = c]
                   /\ idleTimer' = [idleTimer EXCEPT ![c] = 1]
              ELSE /\ connState' = connState
                   /\ activeConnections' = pruned
                   /\ idleTimer' = idleTimer
    /\ UNCHANGED <<maxConnections, uploading, autoDisconnect>>
    /\ idleAge' = [idleAge EXCEPT ![c] = IF loginReply'[c] = "ok" THEN 0 ELSE @]
    /\ quietFor' = [quietFor EXCEPT ![c] = IF loginReply'[c] = "ok" THEN 0 ELSE @]
    /\ UNCHANGED <<qvars, cvars, svars>>

\* an idle callback that deletes the entry and does not close the connection
IdleFire_NoClose(c) ==
    /\ idleTimer[c] > 0
    /\ idleTimer' = [idleTimer EXCEPT ![c] = @ - 1]
    /\ activeConnections' = Delete(activeConnections, connUser[c])
    /\ UNCHANGED <<maxConnections, connState, connUser, loginReply, uploading, autoDisconnect>>
    /\ idleAge' = [idleAge EXCEPT ![c] = 0]
    /\ quietFor' = [quietFor EXCEPT ![c] = 0]
    /\ UNCHANGED <<qvars, cvars, svars>>

\* the callback of either setTimeout(..., CONFIG.FTP.IDLE_TIMEOUT)
IdleFire(c) ==
    /\ idleTimer[c] > 0
    /\ idleTimer' = [idleTimer EXCEPT ![c] = @ - 1]
    /\ activeConnections' = Delete(activeConnections, connUser[c])
    /\ connState' = Close(connState, c)
    /\ UNCHANGED <<maxConnections, connUser, loginReply, uploading, autoDisconnect>>
    /\ idleAge' = [idleAge EXCEPT ![c] = 0]
    /\ quietFor' = [quietFor EXCEPT ![c] = 0]
    /\ UNCHANGED <<qvars, cvars, svars>>

\* a command listener that does not call resetIdleTimer
Command_NoReset(c) ==
    /\ connState[c] = "open"
    /\ quietFor' = [quietFor EXCEPT ![c] = 0]
    /\ UNCHANGED <<maxConnections, activeConnections, connState, connUser,
                   loginReply, idleTimer, uploading, autoDisconnect, idleAge>>
    /\ UNCHANGED <<qvars, cvars, svars>>

\* connection.on(command, () => resetIdleTimer()) for RETR, DELE, MKD, ...
Command(c) ==
    /\ connState[c] = "open"
    /\ idleTimer' = [idleTimer EXCEPT ![c] = ResetIdle(@)]
    /\ UNCHANGED <<maxConnections, activeConnections, connState, connUser,
                   loginReply, uploading, autoDisconnect>>
    /\ idleAge' = [idleAge EXCEPT ![c] = 0]
    /\ quietFor' = [quietFor EXCEPT ![c] = 0]
    /\ UNCHANGED <<qvars, cvars, svars>>

\* connection.on('close' | 'error' | 'end'): delete the entry, clear the timer
Release(c) ==
    /\ connState[c] \in {"closing", "dead"}
    /\ activeConnections' = Delete(activeConnections, connUser[c])
    /\ idleTimer' = [idleTimer EXCEPT ![c] = ClearIdle(@)]
    /\ UNCHANGED <<maxConnections, connState, connUser, loginReply, uploading,
                   autoDisconnect>>
    /\ idleAge' = [idleAge EXCEPT ![c] = 0]
    /\ quietFor' = [quietFor EXCEPT ![c] = 0]
    /\ UNCHANGED <<qvars, cvars, svars>>

\* the device drops an authenticated connection
ClientDisconnect(c) ==
    /\ connState[c] = "open"
    /\ connState' = [connState EXCEPT ![c] = "dead"]
    /\ UNCHANGED <<maxConnections, activeConnections, connUser, loginReply,
                   idleTimer, uploading, autoDisconnect>>
    /\ UNCHANGED <<idleAge, quietFor>>
    /\ UNCHANGED <<qvars, cvars, svars>>

\* a connection the gateway closed has its socket destroyed
SocketDestroyed(c) ==
    /\ connState[c] = "closing"
    /\ connState' = [connState EXCEPT ![c] = "dead"]
    /\ UNCHANGED <<maxConnections, activeConnections, connUser, loginReply,
                   idleTimer, uploading, autoDisconnect>>
    /\ UNCHANGED <<idleAge, quietFor>>
    /\ UNCHANGED <<qvars, cvars, svars>>

\* setInterval(..., 30000): drop every entry whose connection is stale
Sweep ==
    /\ activeConnections' = PruneStale(activeConnections)
    /\ UNCHANGED <<maxConnections, connState, connUser, loginReply, idleTimer,
                   uploading, autoDisconnect>>
    /\ UNCHANGED <<idleAge, quietFor>>
    /\ UNCHANGED <<qvars, cvars, svars>>

(***************************************************************************)
(* A connection may have several uploads awaited and several               *)
(* auto-disconnect timers pending.  Their number is not bounded by the     *)
(* code; the model keeps "none" (0) or "one or more" (1), and a callback   *)
(* that ends one of them leaves either: every run of the model is a run of *)
(* the code with as many STOR events as the callbacks need.                *)
(***************************************************************************)
OneLess == {0, 1}

\* a STOR listener that is registered before the login is checked
Stor_BeforeLogin(c) ==
    /\ connState[c] \in {"unauth", "open"}
    /\ idleTimer' = [idleTimer EXCEPT ![c] = ResetIdle(@)]
    /\ uploading' = [uploading EXCEPT ![c] = 1]
    /\ UNCHANGED <<maxConnections, activeConnections, connState, connUser,
                   loginReply, autoDisconnect>>
    /\ idleAge' = [idleAge EXCEPT ![c] = 0]
    /\ quietFor' = [quietFor EXCEPT ![c] = 0]
    /\ UNCHANGED <<qvars, cvars, svars>>

\* connection.on('STOR', async ...) up to its await of egnyteClient.uploadFile
Stor(c) ==
    /\ connState[c] = "open"
    /\ idleTimer' = [idleTimer EXCEPT ![c] = ResetIdle(@)]
    /\ uploading' = [uploading EXCEPT ![c] = 1]
    /\ UNCHANGED <<maxConnections, activeConnections, connState, connUser,
                   loginReply, autoDisconnect>>
    /\ idleAge' = [idleAge EXCEPT ![c] = 0]
    /\ quietFor' = [quietFor EXCEPT ![c] = 0]
    /\ UNCHANGED <<qvars, cvars, svars>>

\* uploadFile resolved: unlink the local file, arm the auto-disconnect timer
RelayOk(c) ==
    /\ uploading[c] > 0
    /\ \E n \in OneLess : uploading' = [uploading EXCEPT ![c] = n]
    /\ autoDisconnect' = [autoDisconnect EXCEPT ![c] = 1]
    /\ UNCHANGED <<maxConnections, activeConnections, connState, connUser,
                   loginReply, idleTimer>>
    /\ UNCHANGED <<idleAge, quietFor>>
    /\ UNCHANGED <<qvars, cvars, svars>>

\* an egnyteError branch that schedules the auto-disconnect as the success path does
RelayFail_Arms(c) ==
    /\ uploading[c] > 0
    /\ \E n \in OneLess : uploading' = [uploading EXCEPT ![c] = n]
    /\ autoDisconnect' = [autoDisconnect EXCEPT ![c] = 1]
    /\ UNCHANGED <<maxConnections, activeConnections, connState, connUser,
                   loginReply, idleTimer>>
    /\ UNCHANGED <<idleAge, quietFor>>
    /\ UNCHANGED <<qvars, cvars, svars>>

\* uploadFile rejected: the egnyteError branch only logs
RelayFail(c) ==
    /\ uploading[c] > 0
    /\ \E n \in OneLess : uploading' = [uploading EXCEPT ![c] = n]
    /\ UNCHANGED <<maxConnections, activeConnections, connState, connUser,
                   loginReply, idleTimer, autoDisconnect>>
    /\ UNCHANGED <<idleAge, quietFor>>
    /\ UNCHANGED <<qvars, cvars, svars>>

\* the callback of setTimeout(..., CONFIG.FTP.AUTO_DISCONNECT_DELAY)
AutoDisconnectFire(c) ==
    /\ autoDisconnect[c] > 0
    /\ \E n \in OneLess : autoDisconnect' = [autoDisconnect EXCEPT ![c] = n]
    /\ connState' = IF activeConnections[connUser[c]] # NoConn
                    THEN Close(connState, c) ELSE connState
    /\ UNCHANGED <<maxConnections, activeConnections, connUser, loginReply,
                   idleTimer, uploading>>
    /\ UNCHANGED <<idleAge, quietFor>>
    /\ UNCHANGED <<qvars, cvars, svars>>

\* a connection object that is dead and that no timer, awaited upload or registry
\* entry refers to is gone; the device's next connection is a new object
NewConnection(c) ==
    /\ connState[c] = "dead"
    /\ idleTimer[c] = 0 /\ uploading[c] = 0 /\ autoDisconnect[c] = 0
    /\ activeConnections[connUser[c]] # c
    /\ connState' = [connState EXCEPT ![c] = "unauth"]
    /\ connUser' = [connUser EXCEPT ![c] = NoUser]
    /\ loginReply' = [loginReply EXCEPT ![c] = "none"]
    /\ UNCHANGED <<maxConnections, activeConnections, idleTimer, uploading,
                   autoDisconnect>>
    /\ UNCHANGED <<idleAge, quietFor>>
    /\ UNCHANGED <<qvars, cvars, svars>>

\* one tick of time passes: the armed idle timers and the quiet sessions age
Aged(age) == [c \in Conns |-> IF idleTimer[c] > 0 /\ age[c] < IdlePeriod
                               THEN age[c] + 1 ELSE age[c]]

Tick ==
    /\ idleAge' = Aged(idleAge)
    /\ quietFor' = Aged(quietFor)
    /\ UNCHANGED <<maxConnections, activeConnections, connState, connUser,
                   loginReply, idleTimer, uploading, autoDisconnect>>
    /\ UNCHANGED <<qvars, cvars, svars>>

\* the runtime calls the idle callback when CONFIG.FTP.IDLE_TIMEOUT has passed
\* since the timer was armed
IdleExpire(c) ==
    /\ idleAge[c] = IdlePeriod
    /\ IdleFire(c)

Next ==
    \/ \E c \in Conns, u \in Usernames, p \in Passwords : Login(c, u, p)
    \/ \E c \in Conns : IdleFire(c)
    \/ \E c \in Conns : Command(c)
    \/ \E c \in Conns : Release(c)
    \/ \E c \in Conns : ClientDisconnect(c)
    \/ \E c \in Conns : SocketDestroyed(c)
    \/ Sweep
    \/ \E c \in Conns : Stor(c)
    \/ \E c \in Conns : RelayOk(c)
    \/ \E c \in Conns : RelayFail(c)
    \/ \E c \in Conns : AutoDisconnectFire(c)
    \/ \E c \in Conns : NewConnection(c)

----------------------------------------------------------------------------
(***************************************************************************)
(* Debounced upload coordinator (src/unnamed/part_000).                    *)
(***************************************************************************)

QInit ==
    /\ userSessions = [c \in QConns |-> NoUser]
    /\ qState = [c \in QConns |-> "unauth"]
    /\ uploadQueue = <<>>
    /\ processTimer = 0
    /\ armedTimers = 0
    /\ received = 0
    /\ localFile = [f \in Files |-> "none"]
    /\ remote = [f \in Files |-> "none"]
    /\ attempts = [f \in Files |-> 0]
    /\ drains = <<>>
    /\ debounceAge = 0
    /\ sinceEnqueue = 0
    /\ storExit = "none"

\* the credential check of the 'login' handler
QAuthenticated(u, p) == u \in KnownUsers /\ userMappings[u] = p

\* ftpServer.on('login', ...): reject, or record the session and resolve; the
\* connection objects are numbered in the order in which they authenticate
QLogin(c, u, p) ==
    /\ qState[c] = "unauth"
    /\ IF c = 1 THEN TRUE ELSE qState[c - 1] # "unauth"
    /\ IF QAuthenticated(u, p)
       THEN /\ userSessions' = [userSessions EXCEPT ![c] = u]
            /\ qState' = [qState EXCEPT ![c] = "open"]
       ELSE UNCHANGED <<userSessions, qState>>
    /\ UNCHANGED <<uploadQueue, processTimer, armedTimers, received, localFile,
                   remote, attempts, drains>>
    /\ UNCHANGED <<debounceAge, sinceEnqueue, storExit>>
    /\ UNCHANGED <<gvars, cvars, svars>>

\* the device drops its connection; connection.on('close' | 'end') deletes its session
QClose(c) ==
    /\ qState[c] = "open"
    /\ qState' = [qState EXCEPT ![c] = "closed"]
    /\ userSessions' = [userSessions EXCEPT ![c] = NoUser]
    /\ UNCHANGED <<uploadQueue, processTimer, armedTimers, received, localFile,
                   remote, attempts, drains>>
    /\ UNCHANGED <<debounceAge, sinceEnqueue, storExit>>
    /\ UNCHANGED <<gvars, cvars, svars>>

\* a STOR handler that builds every destination under the prefix of one user
Item_SharedPrefix(f, u) == [file |-> f, username |-> u, egnytePath |-> <<EgnytePath["alice"], f>>]

\* the object pushed on uploadQueue by the STOR handler
Item(f, u) == [file |-> f, username |-> u, egnytePath |-> <<EgnytePath[u], f>>]

\* uploadQueue.push(item)
Enqueue(q, it) == Append(q, it)

\* a startProcessTimer that clears the armed timer and arms none
ArmedAfterStart_NoArm(handle, armed) == IF handle # 0 /\ armed > 0 THEN armed - 1 ELSE armed

\* startProcessTimer: clear the armed timer, if the handle is set, and arm a new one
ArmedAfterStart(handle, armed) == (IF handle # 0 /\ armed > 0 THEN armed - 1 ELSE armed) + 1

\* a STOR handler that leaves an armed timer running and arms one only when none is
QStor_NoRestart(c) ==
    /\ qState[c] = "open"
    /\ received < MaxFiles
    /\ received' = received + 1
    /\ localFile' = [localFile EXCEPT ![received + 1] = "staged"]
    /\ uploadQueue' = Enqueue(uploadQueue, Item(received + 1, userSessions[c]))
    /\ armedTimers' = 1
    /\ processTimer' = 1
    /\ debounceAge' = IF armedTimers > 0 THEN debounceAge ELSE 0
    /\ sinceEnqueue' = 0
    /\ storExit' = "returned"
    /\ UNCHANGED <<userSessions, qState, remote, attempts, drains>>
    /\ UNCHANGED <<gvars, cvars, svars>>

\* connection.on('STOR', ...) without error: queue the file, restart the timer
QStor(c) ==
    /\ qState[c] = "open"
    /\ received < MaxFiles
    /\ received' = received + 1
    /\ localFile' = [localFile EXCEPT ![received + 1] = "staged"]
    /\ IF userSessions[c] = NoUser
       THEN UNCHANGED <<uploadQueue, processTimer, armedTimers>>
       ELSE /\ uploadQueue' = Enqueue(uploadQueue, Item(received + 1, userSessions[c]))
            /\ armedTimers' = ArmedAfterStart(processTimer, armedTimers)
            /\ processTimer' = 1
    /\ debounceAge' = 0
    /\ sinceEnqueue' = 0
    /\ storExit' = "returned"
    /\ storExit' = "returned"
    /\ UNCHANGED <<userSessions, qState, remote, attempts, drains>>
    /\ UNCHANGED <<gvars, cvars, svars>>

\* PacingWait that also skips the wait before the last item
PacingWait_SkipsLast(i, n) == i < n - 1

\* if (i < filesToProcess.length - 1): a pacing wait follows item i of n (i from 1)
PacingWait(i, n) == i < n

\* a catch block that lets an upload error out of the loop
Rethrows_OnFail(r) == r = "fail"

\* the catch block of the loop logs and counts; it does not rethrow
Rethrows(r) == FALSE

\* the for loop steps to the next item, or ends with the batch summary
LoopOn(dr) ==
    IF dr.i < Len(dr.snap)
    THEN [dr EXCEPT !.i = @ + 1, !.pc = "upload"]
    ELSE [dr EXCEPT !.pc = "done"]

\* the uploadToEgnyte call the loop makes on entering item dr.i
Dispatch(att, dr) ==
    IF dr.pc = "upload" THEN [att EXCEPT ![dr.snap[dr.i].file] = @ + 1] ELSE att

\* success++ in the try block, failed++ in the catch block
Counted(dr, r) ==
    [dr EXCEPT !.success = IF r = "ok" THEN @ + 1 ELSE @,
               !.failed = IF r = "ok" THEN @ ELSE @ + 1]

\* a snapshot that takes the pending items last-in first
Snapshot_Reversed(q) == [k \in 1..Len(q) |-> q[Len(q) + 1 - k]]

\* const filesToProcess = [...uploadQueue]
Snapshot(q) == q

\* a drain that leaves the queue as it was
Cleared_Not(q) == q

\* uploadQueue.length = 0
Cleared(q) == <<>>

\* a processUploadQueue without the empty check: on an empty queue the loop runs
\* zero times and the batch summary is written
StartDrain_NoEmptyCheck ==
    LET snap == Snapshot(uploadQueue)
        first == [snap |-> snap, i |-> IF snap = <<>> THEN 0 ELSE 1,
                  pc |-> IF snap = <<>> THEN "done" ELSE "upload",
                  success |-> 0, failed |-> 0, waits |-> 0]
    IN  /\ drains' = Append(drains, first)
        /\ uploadQueue' = Cleared(uploadQueue)
        /\ attempts' = Dispatch(attempts, first)

\* processUploadQueue up to its first await: nothing on an empty queue, else the
\* snapshot, the clearing of the queue and the first uploadToEgnyte call
StartDrain ==
    IF uploadQueue = <<>>
    THEN UNCHANGED <<uploadQueue, drains, attempts>>
    ELSE LET snap == Snapshot(uploadQueue)
         IN  /\ drains' = Append(drains, [snap |-> snap, i |-> 1, pc |-> "upload",
                                           success |-> 0, failed |-> 0, waits |-> 0])
             /\ uploadQueue' = Cleared(uploadQueue)
             /\ attempts' = Dispatch(attempts, [snap |-> snap, i |-> 1, pc |-> "upload"])

\* the callback of setTimeout(..., IDLE_TIMEOUT): processUploadQueue(); processTimer = null
TimerFire ==
    /\ armedTimers > 0
    /\ armedTimers' = armedTimers - 1
    /\ StartDrain
    /\ processTimer' = 0
    /\ UNCHANGED <<userSessions, qState, received, localFile, remote>>
    /\ debounceAge' = 0
    /\ sinceEnqueue' = 0
    /\ UNCHANGED storExit
    /\ UNCHANGED <<gvars, cvars, svars>>

\* a catch block that pushes the failed item back on uploadQueue
UploadSettles_Requeues(d, r) ==
    /\ drains[d].pc = "upload"
    /\ LET dr == Counted(drains[d], r)
           f == dr.snap[dr.i].file
           after == IF PacingWait(dr.i, Len(dr.snap))
                    THEN [dr EXCEPT !.pc = "pace", !.waits = @ + 1]
                    ELSE LoopOn(dr)
       IN  /\ remote' = [remote EXCEPT ![f] = IF r = "fail" THEN "failed" ELSE "ok"]
           /\ localFile' = [localFile EXCEPT ![f] = IF r = "ok" THEN "deleted" ELSE @]
           /\ drains' = [drains EXCEPT ![d] = after]
           /\ attempts' = Dispatch(attempts, after)
           /\ uploadQueue' = IF r = "fail" THEN Enqueue(uploadQueue, dr.snap[dr.i])
                              ELSE uploadQueue
    /\ UNCHANGED <<userSessions, qState, processTimer, armedTimers, received>>
    /\ UNCHANGED <<debounceAge, sinceEnqueue, storExit>>
    /\ UNCHANGED <<gvars, cvars, svars>>

\* the drain resumes after await uploadToEgnyte: r = "ok" (uploaded, unlinked),
\* "unlinkfail" (uploaded, fs.unlinkSync threw), "fail" (the upload threw)
UploadSettles(d, r) ==
    /\ drains[d].pc = "upload"
    /\ LET dr == Counted(drains[d], r)
           f == dr.snap[dr.i].file
           after == IF Rethrows(r) THEN [dr EXCEPT !.pc = "aborted"]
                    ELSE IF PacingWait(dr.i, Len(dr.snap))
                         THEN [dr EXCEPT !.pc = "pace", !.waits = @ + 1]
                         ELSE LoopOn(dr)
       IN  /\ remote' = [remote EXCEPT ![f] = IF r = "fail" THEN "failed" ELSE "ok"]
           /\ localFile' = [localFile EXCEPT ![f] = IF r = "ok" THEN "deleted" ELSE @]
           /\ drains' = [drains EXCEPT ![d] = after]
           /\ attempts' = Dispatch(attempts, after)
    /\ UNCHANGED <<userSessions, qState, uploadQueue, processTimer, armedTimers, received>>
    /\ UNCHANGED <<debounceAge, sinceEnqueue, storExit>>
    /\ UNCHANGED <<gvars, cvars, svars>>

\* the pacing delay elapsed: the loop goes on
PaceDone(d) ==
    /\ drains[d].pc = "pace"
    /\ LET after == LoopOn(drains[d])
       IN  /\ drains' = [drains EXCEPT ![d] = after]
           /\ attempts' = Dispatch(attempts, after)
    /\ UNCHANGED <<userSessions, qState, uploadQueue, processTimer, armedTimers,
                   received, localFile, remote>>
    /\ UNCHANGED <<debounceAge, sinceEnqueue, storExit>>
    /\ UNCHANGED <<gvars, cvars, svars>>

\* the drains of a process that ended: none of them goes on
Torn(ds) == [d \in 1..Len(ds) |-> IF ds[d].pc = "done" THEN ds[d] ELSE [ds[d] EXCEPT !.pc = "aborted"]]

\* connection.on('STOR', ...) without error for a file that cannot be statted:
\* fs.statSync throws inside the argument of writeLog, outside any try block, so
\* the handler ends by exception before the push and before startProcessTimer.
\* What becomes of the exception is up to the emitter of the event, which is not
\* part of the sources: it contains it, or the process ends.
QStorStatFails(c) ==
    /\ qState[c] = "open"
    /\ received < MaxFiles
    /\ received' = received + 1
    /\ localFile' = [localFile EXCEPT ![received + 1] = "unreadable"]
    /\ \/ /\ storExit' = "threw"
          /\ UNCHANGED <<userSessions, qState, uploadQueue, processTimer, armedTimers,
                         drains, debounceAge, sinceEnqueue>>
       \/ /\ storExit' = "crashed"
          /\ userSessions' = [d \in QConns |-> NoUser]
          /\ qState' = [d \in QConns |-> "closed"]
          /\ uploadQueue' = <<>>
          /\ processTimer' = 0
          /\ armedTimers' = 0
          /\ drains' = Torn(drains)
          /\ debounceAge' = 0
          /\ sinceEnqueue' = 0
    /\ UNCHANGED <<remote, attempts>>
    /\ UNCHANGED <<gvars, cvars, svars>>

\* one tick of time passes: the armed debounce timer and the quiet time age
QAged(age) == IF armedTimers > 0 /\ age < QuietPeriod THEN age + 1 ELSE age

QTick ==
    /\ debounceAge' = QAged(debounceAge)
    /\ sinceEnqueue' = QAged(sinceEnqueue)
    /\ UNCHANGED <<userSessions, qState, uploadQueue, processTimer, armedTimers,
                   received, localFile, remote, attempts, drains, storExit>>
    /\ UNCHANGED <<gvars, cvars, svars>>

\* the runtime calls the timer callback when IDLE_TIMEOUT has passed since the
\* timer was set
TimerExpire ==
    /\ debounceAge = QuietPeriod
    /\ TimerFire

\* processUploadQueue called by a trigger other than the debounce timer (the
\* specification's second strategy; the timer is the only caller in part_000)
OtherTrigger ==
    /\ StartDrain
    /\ UNCHANGED <<userSessions, qState, processTimer, armedTimers, received,
                   localFile, remote>>
    /\ UNCHANGED <<debounceAge, sinceEnqueue, storExit>>
    /\ UNCHANGED <<gvars, cvars, svars>>

QNext ==
    \/ \E c \in QConns, u \in Usernames, p \in Passwords : QLogin(c, u, p)
    \/ \E c \in QConns : QClose(c)
    \/ \E c \in QConns : QStor(c)
    \/ TimerFire
    \/ \E d \in 1..Len(drains), r \in {"ok", "unlinkfail", "fail"} : UploadSettles(d, r)
    \/ \E d \in 1..Len(drains) : PaceDone(d)

----------------------------------------------------------------------------
\* no call of uploadFile is under way
Idle == [pc |-> "idle", local |-> "none", check |-> "none", create |-> "none",
         request |-> "none", sent |-> FALSE, warned |-> FALSE]

CInit == client = Idle

\* the disconnect-triggered variant after start: nothing queued, no timer
SInit ==
    /\ simpleQueue = <<>>
    /\ simpleTimers = 0
    /\ simpleRuns = <<>>
    /\ simpleAttempts = [f \in Files |-> 0]
    /\ simpleLocal = [f \in Files |-> "none"]
    /\ simpleReceived = 0
    /\ disconnects = 0

Init == GInit /\ QInit /\ CInit /\ SInit

\* the production gateway
Spec == Init /\ [][Next]_vars

\* the debounced coordinator; the production gateway's variables stay as constructed
InitQueue == GInit /\ maxConnections = MaxCap /\ QInit /\ CInit /\ SInit

SpecQueue == InitQueue /\ [][QNext]_vars

\* the debounced coordinator when processUploadQueue also has a second caller
TriggersNext ==
    \/ \E c \in QConns, u \in Usernames, p \in Passwords : QLogin(c, u, p)
    \/ \E c \in QConns : QClose(c)
    \/ \E c \in QConns : QStor(c)
    \/ TimerFire
    \/ OtherTrigger
    \/ \E d \in 1..Len(drains), r \in {"ok", "unlinkfail", "fail"} : UploadSettles(d, r)
    \/ \E d \in 1..Len(drains) : PaceDone(d)

SpecQueueTriggers == InitQueue /\ [][TriggersNext]_vars

\* the debounced coordinator with time: the timer callback runs only when its
\* delay has passed
QTimedNext ==
    \/ QTick
    \/ TimerExpire
    \/ \E c \in QConns, u \in Usernames, p \in Passwords : QLogin(c, u, p)
    \/ \E c \in QConns : QClose(c)
    \/ \E c \in QConns : QStor(c)
    \/ \E d \in 1..Len(drains), r \in {"ok", "unlinkfail", "fail"} : UploadSettles(d, r)
    \/ \E d \in 1..Len(drains) : PaceDone(d)

SpecQueueTimed == InitQueue /\ [][QTimedNext]_vars

\* the debounced coordinator when received files may be impossible to stat
QStatNext ==
    \/ QNext
    \/ \E c \in QConns : QStorStatFails(c)

SpecQueueStat == InitQueue /\ [][QStatNext]_vars

\* what fs.existsSync finds, and what a request to the remote can end with: an
\* HTTP status (2xx, 404, another one), the abort of AbortSignal.timeout, or a
\* transport error of fetch
LocalStates == {"present", "missing"}
CheckOutcomes == {"ok", "404", "http", "timeout", "transport"}
RequestOutcomes == {"ok", "http", "timeout", "transport"}

\* an ensureDirectoryExists whose catch block throws the error on to uploadFile
EnsureFailed_Throws(cl) == [cl EXCEPT !.pc = "rejected"]

\* the catch block of ensureDirectoryExists: warn, do not throw; uploadFile goes on
\* to the upload request
EnsureFailed(cl) == [cl EXCEPT !.pc = "send", !.warned = TRUE]

\* uploadFile is called: a missing local file throws at once, else the directory
\* check is sent; l, ck, cr, rq are what the file system and the remote will answer
UploadFile(l, ck, cr, rq) ==
    /\ client.pc = "idle"
    /\ client' = [pc |-> IF l = "present" THEN "check" ELSE "rejected",
                  local |-> l, check |-> ck, create |-> cr, request |-> rq,
                  sent |-> FALSE, warned |-> FALSE]
    /\ UNCHANGED <<gvars, qvars, svars>>

\* the GET of ensureDirectoryExists settles
CheckSettles ==
    /\ client.pc = "check"
    /\ client' = IF client.check = "ok" THEN [client EXCEPT !.pc = "send"]
                 ELSE IF client.check = "404" THEN [client EXCEPT !.pc = "create"]
                 ELSE EnsureFailed(client)
    /\ UNCHANGED <<gvars, qvars, svars>>

\* the POST add_folder of ensureDirectoryExists settles
CreateSettles ==
    /\ client.pc = "create"
    /\ client' = IF client.create = "ok" THEN [client EXCEPT !.pc = "send"]
                 ELSE EnsureFailed(client)
    /\ UNCHANGED <<gvars, qvars, svars>>

\* the POST of the file settles: uploadFile returns {success: true, ...} when the
\* response is ok, and throws otherwise
RequestSettles ==
    /\ client.pc = "send"
    /\ client' = [client EXCEPT !.sent = TRUE,
                                !.pc = IF client.request = "ok" THEN "resolved" ELSE "rejected"]
    /\ UNCHANGED <<gvars, qvars, svars>>

\* the caller has taken the result of the call
Returned ==
    /\ client.pc \in {"resolved", "rejected"}
    /\ client' = Idle
    /\ UNCHANGED <<gvars, qvars, svars>>

ClientNext ==
    \/ \E l \in LocalStates, ck \in CheckOutcomes, cr \in RequestOutcomes,
          rq \in RequestOutcomes : UploadFile(l, ck, cr, rq)
    \/ CheckSettles
    \/ CreateSettles
    \/ RequestSettles
    \/ Returned

\* the upload client alone
SpecClient == Init /\ [][ClientNext]_vars

\* server.on('upload', ...): the file is on disk; it is queued when its user is in
\* userMappings
Upload(u) ==
    /\ simpleReceived < MaxFiles
    /\ simpleReceived' = simpleReceived + 1
    /\ simpleLocal' = [simpleLocal EXCEPT ![simpleReceived + 1] = "staged"]
    /\ simpleQueue' = IF u \in KnownUsers
                      THEN Append(simpleQueue, [file |-> simpleReceived + 1, username |-> u])
                      ELSE simpleQueue
    /\ UNCHANGED <<simpleTimers, simpleRuns, simpleAttempts, disconnects>>
    /\ UNCHANGED <<gvars, qvars, cvars>>

\* server.on('disconnect', ...): setTimeout(processUploads, 2000)
Disconnect ==
    /\ disconnects < MaxDisconnects
    /\ disconnects' = disconnects + 1
    /\ simpleTimers' = simpleTimers + 1
    /\ UNCHANGED <<simpleQueue, simpleRuns, simpleAttempts, simpleLocal, simpleReceived>>
    /\ UNCHANGED <<gvars, qvars, cvars>>

\* the call of uploadToEgnyte for the item a run stands at
SimpleDispatch(att, run) ==
    IF run.pc = "upload" THEN [att EXCEPT ![run.snap[run.i].file] = @ + 1] ELSE att

\* the for...of loop of processUploads goes on to the next item of its copy, or ends
SimpleLoopOn(run) ==
    IF run.i < Len(run.snap) THEN [run EXCEPT !.i = @ + 1, !.pc = "upload"]
    ELSE [run EXCEPT !.pc = "done"]

\* uploadQueue.splice(uploadQueue.indexOf(item), 1)
Spliced(q, it) == SelectSeq(q, LAMBDA x : x # it)

\* the catch block of processUploads leaves the item in uploadQueue
KeptAfterFailure(q, it) == q

\* the timer callback processUploads, up to its first await: return on an empty
\* queue, else copy the queue and call uploadToEgnyte for the first item
ProcessUploads ==
    /\ simpleTimers > 0
    /\ simpleTimers' = simpleTimers - 1
    /\ IF simpleQueue = <<>>
       THEN UNCHANGED <<simpleRuns, simpleAttempts>>
       ELSE LET run == [snap |-> simpleQueue, i |-> 1, pc |-> "upload",
                        success |-> 0, failed |-> 0]
            IN  /\ simpleRuns' = Append(simpleRuns, run)
                /\ simpleAttempts' = SimpleDispatch(simpleAttempts, run)
    /\ UNCHANGED <<simpleQueue, simpleLocal, simpleReceived, disconnects>>
    /\ UNCHANGED <<gvars, qvars, cvars>>

\* the awaited uploadToEgnyte of run d settles. "ok": uploaded and unlinked, the
\* item is spliced out and the run waits UPLOAD_DELAY when the queue is not empty;
\* "unlinkfail": uploaded, fs.unlinkSync throws; "fail": the upload rejects. Both
\* failures land in the catch block. A local file that is already gone cannot be
\* unlinked.
SimpleSettles(d, r) ==
    /\ simpleRuns[d].pc = "upload"
    /\ LET run == simpleRuns[d]
           it == run.snap[run.i]
           q == IF r = "ok" THEN Spliced(simpleQueue, it) ELSE KeptAfterFailure(simpleQueue, it)
           counted == [run EXCEPT !.success = IF r = "ok" THEN @ + 1 ELSE @,
                                  !.failed = IF r = "ok" THEN @ ELSE @ + 1]
           after == IF r = "ok" /\ q # <<>> THEN [counted EXCEPT !.pc = "pace"]
                    ELSE SimpleLoopOn(counted)
       IN  /\ r = "ok" => simpleLocal[it.file] = "staged"
           /\ simpleQueue' = q
           /\ simpleLocal' = [simpleLocal EXCEPT ![it.file] = IF r = "ok" THEN "deleted" ELSE @]
           /\ simpleRuns' = [simpleRuns EXCEPT ![d] = after]
           /\ simpleAttempts' = SimpleDispatch(simpleAttempts, after)
    /\ UNCHANGED <<simpleTimers, simpleReceived, disconnects>>
    /\ UNCHANGED <<gvars, qvars, cvars>>

\* the UPLOAD_DELAY of run d elapsed
SimplePaceDone(d) ==
    /\ simpleRuns[d].pc = "pace"
    /\ LET after == SimpleLoopOn(simpleRuns[d])
       IN  /\ simpleRuns' = [simpleRuns EXCEPT ![d] = after]
           /\ simpleAttempts' = SimpleDispatch(simpleAttempts, after)
    /\ UNCHANGED <<simpleQueue, simpleTimers, simpleLocal, simpleReceived, disconnects>>
    /\ UNCHANGED <<gvars, qvars, cvars>>

SimpleNext ==
    \/ \E u \in Usernames : Upload(u)
    \/ Disconnect
    \/ ProcessUploads
    \/ \E d \in 1..Len(simpleRuns), r \in {"ok", "unlinkfail", "fail"} : SimpleSettles(d, r)
    \/ \E d \in 1..Len(simpleRuns) : SimplePaceDone(d)

\* the disconnect-triggered variant
SpecSimple == Init /\ [][SimpleNext]_vars

\* the upload of drain d settles: uploadToEgnyte resolves, or rejects at the latest
\* when its request times out
Settles(d) == d \in 1..Len(drains) /\ \E r \in {"ok", "unlinkfail", "fail"} : UploadSettles(d, r)

\* the pacing delay of drain d elapses
Paced(d) == d \in 1..Len(drains) /\ PaceDone(d)

\* the debounced coordinator with the runtime's guarantees: an armed timer fires,
\* an awaited upload settles, a pacing delay elapses
SpecQueueFair ==
    /\ InitQueue /\ [][QNext]_vars
    /\ WF_vars(TimerFire)
    /\ \A d \in 1..MaxFiles : WF_vars(Settles(d)) /\ WF_vars(Paced(d))

\* the production gateway when the devices send no command after logging in; the
\* timers of the runtime fire once their delay has passed
QuietNext ==
    \/ \E c \in Conns, u \in Usernames, p \in Passwords : Login(c, u, p)
    \/ \E c \in Conns : IdleFire(c)
    \/ \E c \in Conns : Release(c)
    \/ \E c \in Conns : ClientDisconnect(c)
    \/ \E c \in Conns : SocketDestroyed(c)
    \/ Sweep
    \/ \E c \in Conns : NewConnection(c)

SpecQuiet == Init /\ [][QuietNext]_vars /\ \A c \in Conns : WF_vars(IdleFire(c))

\* the production gateway with time: an idle callback runs only when its delay
\* has passed
TimedNext ==
    \/ Tick
    \/ \E c \in Conns : IdleExpire(c)
    \/ \E c \in Conns, u \in Usernames, p \in Passwords : Login(c, u, p)
    \/ \E c \in Conns : Command(c)
    \/ \E c \in Conns : Release(c)
    \/ \E c \in Conns : ClientDisconnect(c)
    \/ \E c \in Conns : SocketDestroyed(c)
    \/ Sweep
    \/ \E c \in Conns : Stor(c)
    \/ \E c \in Conns : RelayOk(c)
    \/ \E c \in Conns : RelayFail(c)
    \/ \E c \in Conns : AutoDisconnectFire(c)
    \/ \E c \in Conns : NewConnection(c)

SpecTimed == Init /\ [][TimedNext]_vars

----------------------------------------------------------------------------
(***************************************************************************)
(* Claims about the production gateway (Spec).                             *)
(***************************************************************************)

\* the outcomes that reject a login for its credentials
AuthRejected == {"notfound", "badpw"}

\* connection c is closed (by the gateway or by the device)
Closed(st, c) == st[c] \in {"closing", "dead"}

\* every entry of the registry is held by a connection that authenticated as its key
C1_EntryOwned ==
    \A u \in Usernames :
        activeConnections[u] # NoConn =>
            /\ connUser[activeConnections[u]] = u
            /\ connState[activeConnections[u]] # "unauth"
            /\ \A v \in Usernames : activeConnections[v] = activeConnections[u] => v = u

\* a step that records a new session for a username that had an entry has closed
\* the connection of the previous entry
C1_PreviousClosed ==
    \A u \in Usernames :
        (/\ activeConnections[u] # NoConn
         /\ activeConnections'[u] # NoConn
         /\ activeConnections'[u] # activeConnections[u])
        => /\ Closed(connState', activeConnections[u])
           /\ connState'[activeConnections'[u]] = "open"

\* C1: the registry holds at most one session per identity, each held by a
\* connection that authenticated as that identity, and a successful login of an
\* identity that has an entry closes the entry's connection and replaces the entry
\* in the same handler run.
C1_OneSessionPerIdentity == [](C1_EntryOwned) /\ [][C1_PreviousClosed]_vars

\* a second session of u replaced a first one that was still open: the first is
\* closing and its idle timer is still armed, the second holds the entry
C1_Witness ==
    \E u \in KnownUsers, c0, c1 \in Conns :
        /\ c0 # c1
        /\ connUser[c0] = u /\ connUser[c1] = u
        /\ connState[c0] = "closing" /\ idleTimer[c0] = 1 /\ autoDisconnect[c0] = 0
        /\ connState[c1] = "open"
        /\ activeConnections[u] = c1

\* C2 (as claimed): with a maximum of 1, alice/s1 is accepted on an empty registry;
\* alice/s1 on a new connection while the first is open is accepted and closes the
\* first connection; bob is then rejected as over capacity.
C2_Scenario ==
    [][\A c \in Conns :
         /\ (maxConnections = 1 /\ Size(activeConnections) = 0 /\ Login(c, "alice", "s1"))
            => loginReply'[c] = "ok"
         /\ (/\ maxConnections = 1
             /\ activeConnections["alice"] # NoConn
             /\ connState[activeConnections["alice"]] = "open"
             /\ Login(c, "alice", "s1"))
            => /\ loginReply'[c] = "ok"
               /\ Closed(connState', activeConnections["alice"])
               /\ activeConnections'["alice"] = c
         /\ (/\ maxConnections = 1
             /\ activeConnections["alice"] # NoConn
             /\ connState[activeConnections["alice"]] = "open"
             /\ \E p \in Passwords : Login(c, "bob", p))
            => loginReply'[c] = "busy"]_vars

\* C3 (as claimed): a login with a username that is not in the credential table is
\* always answered with the authentication-rejected outcome and creates no session.
C3_UnknownAlwaysAuthRejected ==
    [][\A c \in Conns, p \in Passwords :
         Login(c, "eve", p) =>
            /\ loginReply'[c] \in AuthRejected
            /\ connState'[c] = "unauth"]_vars

\* C3 (amended): a login with a username that is not in the credential table is
\* always rejected and creates no session: with the capacity outcome when the
\* pruned registry is full, with the authentication-rejected outcome otherwise.
C3_UnknownRejected ==
    [][\A c \in Conns, p \in Passwords :
         Login(c, "eve", p) =>
            /\ loginReply'[c] \in AuthRejected
                  <=> Size(PruneStale(activeConnections)) < maxConnections
            /\ loginReply'[c] \in AuthRejected \cup {"busy"}
            /\ connState'[c] = "unauth"
            /\ activeConnections' = PruneStale(activeConnections)
            /\ idleTimer' = idleTimer]_vars

\* an unknown user met a full registry, was rejected for capacity and is no session
C3_Witness ==
    \E c \in Conns :
        /\ connUser[c] = "eve" /\ loginReply[c] = "busy" /\ connState[c] = "unauth"
        /\ Size(activeConnections) = maxConnections
        /\ activeConnections["eve"] = NoConn

\* a login that finds the pruned registry full is answered busy and records nothing
C4_FullRejects ==
    \A c \in Conns, u \in Usernames, p \in Passwords :
        (Login(c, u, p) /\ Size(PruneStale(activeConnections)) >= maxConnections)
        => /\ loginReply'[c] = "busy"
           /\ connState' = connState
           /\ activeConnections' = PruneStale(activeConnections)
           /\ idleTimer' = idleTimer

\* C4: the registry never holds more entries than the configured maximum, and a
\* login that finds the pruned registry at the maximum is rejected as over
\* capacity and records nothing.
C4_Capacity ==
    [](Size(activeConnections) <= maxConnections) /\ [][C4_FullRejects]_vars

\* the registry is full, all its connections are open, and a login was refused
C4_Witness ==
    /\ Size(activeConnections) = maxConnections
    /\ \A u \in Usernames :
          activeConnections[u] # NoConn => connState[activeConnections[u]] = "open"
    /\ \E c \in Conns : loginReply[c] = "busy" /\ connState[c] = "unauth"

(***************************************************************************)
(* Claims about the debounced upload coordinator (SpecQueue).              *)
(***************************************************************************)

DrainIds == 1..Len(drains)

\* positions of the pending set that hold file f
InQueue(f) == {k \in 1..Len(uploadQueue) : uploadQueue[k].file = f}

\* positions <<drain, index>> of the snapshots that hold file f
InSnapshots(f) ==
    {s \in UNION {{<<d, k>> : k \in 1..Len(drains[d].snap)} : d \in DrainIds} :
        drains[s[1]].snap[s[2]].file = f}

\* the positions of InSnapshots(f) the loop of their drain has reached
Reached(f) == {s \in InSnapshots(f) : s[2] <= drains[s[1]].i}

\* a received file is in exactly one place, the pending set or one snapshot, and
\* was uploaded once for every position a loop reached; a file not yet received
\* is in no place
C5_OnePlace ==
    \A f \in Files :
        /\ Cardinality(InQueue(f)) + Cardinality(InSnapshots(f))
              = (IF f <= received THEN 1 ELSE 0)
        /\ attempts[f] = Cardinality(Reached(f))
        /\ attempts[f] <= 1

\* a drain that has ended went through its whole snapshot
C5_WholeSnapshot ==
    \A d \in DrainIds : drains[d].pc = "done" => drains[d].i = Len(drains[d].snap)

\* drains are only added, and the snapshot of a drain never changes
C5_SnapshotFixed ==
    /\ Len(drains') >= Len(drains)
    /\ \A d \in DrainIds : drains'[d].snap = drains[d].snap

\* C5: every transfer that is pending when a drain takes its snapshot is in that
\* snapshot and in no other place, and is uploaded exactly once when the loop
\* reaches it; a transfer enqueued later is in no running drain's snapshot, stays
\* in the pending set until a later snapshot takes it, and no transfer is
\* uploaded twice.
C5_ExactlyOnce ==
    [](C5_OnePlace /\ C5_WholeSnapshot) /\ [][C5_SnapshotFixed]_vars

\* a drain over files 1 and 2 is in its pacing delay, file 1 was uploaded, and
\* file 3, enqueued meanwhile, is pending and was not uploaded
C5_Witness ==
    /\ Len(drains) = 1
    /\ Len(drains[1].snap) = 2
    /\ drains[1].pc = "pace"
    /\ attempts[1] = 1 /\ attempts[2] = 0
    /\ Len(uploadQueue) = 1 /\ uploadQueue[1].file = 3
    /\ attempts[3] = 0

\* C6 (as claimed): at most one drain is in flight at any time.
C6_SingleDrain ==
    Cardinality({d \in DrainIds : drains[d].pc \in {"upload", "pace"}}) <= 1

\* the items of drain d whose upload has settled
Settled(d) ==
    {k \in 1..Len(drains[d].snap) :
        k < drains[d].i \/ (k = drains[d].i /\ drains[d].pc # "upload")}

\* the items of drain d whose upload ended with outcome o
WithOutcome(d, o) == {k \in Settled(d) : remote[drains[d].snap[k].file] = o}

\* C7 (as claimed): an item whose upload failed keeps its local file, an item
\* whose upload succeeded has its local file deleted, and the summary of a drain
\* counts the succeeded uploads as successes and the failed ones as failures.
C7_Summary ==
    \A d \in DrainIds :
        /\ \A k \in WithOutcome(d, "failed") : localFile[drains[d].snap[k].file] = "staged"
        /\ \A k \in WithOutcome(d, "ok") : localFile[drains[d].snap[k].file] = "deleted"
        /\ drains[d].pc = "done" =>
              /\ drains[d].success = Cardinality(WithOutcome(d, "ok"))
              /\ drains[d].failed = Cardinality(WithOutcome(d, "failed"))
              /\ drains[d].success + drains[d].failed = Len(drains[d].snap)

\* no drain is torn down, and a drain that has ended has uploaded every item
C8_BatchCompletes ==
    \A d \in DrainIds :
        /\ drains[d].pc \in {"upload", "pace", "done"}
        /\ drains[d].pc = "done" =>
              /\ drains[d].i = Len(drains[d].snap)
              /\ drains[d].success + drains[d].failed = Len(drains[d].snap)
              /\ \A k \in 1..Len(drains[d].snap) : attempts[drains[d].snap[k].file] >= 1

\* the step in which an item fails leaves the sessions, the pending set and the
\* drain trigger as they were, and leaves a drain with items left running
C8_FailureContained ==
    \A d \in DrainIds :
        drains'[d].failed > drains[d].failed =>
            /\ userSessions' = userSessions /\ qState' = qState
            /\ uploadQueue' = uploadQueue
            /\ processTimer' = processTimer /\ armedTimers' = armedTimers
            /\ \A e \in DrainIds \ {d} : drains'[e] = drains[e]
            /\ drains[d].i < Len(drains[d].snap) => drains'[d].pc \in {"upload", "pace"}

\* C8: a failed item never aborts the batch (a drain ends only after every item of
\* its snapshot was uploaded), the failure leaves the coordinator able to run later
\* drains, and it closes or removes no session.
C8_FailureDoesNotAbort == [](C8_BatchCompletes) /\ [][C8_FailureContained]_vars

\* the first item of a two-item drain failed and the second succeeded; a later
\* drain ran, and a session is still open
C8_Witness ==
    /\ Len(drains) = 2
    /\ Len(drains[1].snap) = 2
    /\ drains[1].pc = "done" /\ drains[1].failed = 1 /\ drains[1].success = 1
    /\ remote[drains[1].snap[1].file] = "failed"
    /\ remote[drains[1].snap[2].file] = "ok"
    /\ drains[2].pc = "done"
    /\ \E c \in QConns : qState[c] = "open" /\ userSessions[c] # NoUser

\* the pacing waits a drain has made: one after every item but the last
C9_WaitsCounted ==
    \A d \in DrainIds :
        LET dr == drains[d] IN
        /\ dr.pc = "upload" => dr.waits = dr.i - 1
        /\ dr.pc = "pace" => dr.waits = dr.i /\ dr.i < Len(dr.snap)
        /\ dr.pc = "done" => dr.waits = Len(dr.snap) - 1 /\ dr.i = Len(dr.snap)

\* the loop moves to the next item only out of a pacing wait
C9_NextAfterWait ==
    \A d \in DrainIds :
        drains'[d].i # drains[d].i =>
            drains[d].pc = "pace" /\ drains'[d].i = drains[d].i + 1

\* C9: in a drain over N items the coordinator makes one pacing wait between the
\* upload of item i and of item i+1, whether item i succeeded or failed, and none
\* after the last item.
C9_Pacing == [](C9_WaitsCounted) /\ [][C9_NextAfterWait]_vars

\* a drain over three items, with a failed and a succeeded item, ended after two waits
C9_Witness ==
    \E d \in DrainIds :
        /\ Len(drains[d].snap) = 3
        /\ drains[d].pc = "done" /\ drains[d].waits = 2
        /\ drains[d].failed >= 1 /\ drains[d].success >= 1

(***************************************************************************)
(* Claims about the gateway without traffic (SpecQuiet).                   *)
(***************************************************************************)

\* the idle callback deletes the username's entry and closes the connection
C10_CallbackCloses ==
    \A c \in Conns :
        IdleFire(c) => /\ activeConnections'[connUser[c]] = NoConn
                       /\ Closed(connState', c)

\* C10: a session that gets no traffic after its login has its idle timer armed
\* as long as it is open, and is eventually closed: its connection is closed and
\* the registry does not hold it.
C10_IdleCloses ==
    /\ [](\A c \in Conns : connState[c] = "open" => idleTimer[c] = 1)
    /\ [][C10_CallbackCloses]_vars
    /\ \A c \in Conns :
          (connState[c] = "open")
             ~> (Closed(connState, c) /\ activeConnections[connUser[c]] # c)

\* the only connection that ever logged in was closed by its idle timer and is
\* not in the registry
C10_Witness ==
    \E c \in Conns :
        /\ loginReply[c] = "ok" /\ connState[c] = "closing" /\ idleTimer[c] = 0
        /\ activeConnections[connUser[c]] = NoConn
        /\ \A d \in Conns \ {c} : loginReply[d] = "none"

(***************************************************************************)
(* Claims about releasing, auto-disconnect and rejected logins (Spec).     *)
(***************************************************************************)

\* after a run of the release handlers of c, a further run finds the handlers still
\* registered and changes neither the registry nor the timers
C11_SecondRunSame ==
    \A c \in Conns :
        Release(c) =>
            /\ connState'[c] \in {"closing", "dead"}
            /\ Delete(activeConnections', connUser'[c]) = activeConnections'
            /\ [idleTimer' EXCEPT ![c] = ClearIdle(@)] = idleTimer'
            /\ autoDisconnect' = autoDisconnect /\ uploading' = uploading

\* C11: releasing is idempotent: when the close, end or error handler of a
\* connection has run, running one of them again leaves the registry and the
\* timers as the first run left them (Map.delete and clearTimeout raise no error).
C11_ReleaseIdempotent == [][C11_SecondRunSame]_vars

\* a session that had traffic was dropped by its device and released: its entry is
\* gone, its idle timer is cleared, and its handlers can run again
C11_Witness ==
    \E c \in Conns :
        /\ loginReply[c] = "ok" /\ connState[c] = "dead"
        /\ uploading[c] = 1
        /\ idleTimer[c] = 0
        /\ activeConnections[connUser[c]] = NoConn

\* C12 (as claimed): the auto-disconnect callback of a session that is still open
\* (not released) closes the session's connection; the callback of a session that
\* was released closes no connection; the callback never changes the registry.
C12_AutoDisconnect ==
    [][\A c \in Conns :
         AutoDisconnectFire(c) =>
            /\ connState[c] = "open" => Closed(connState', c)
            /\ connState[c] # "open" => connState' = connState
            /\ activeConnections' = activeConnections]_vars

\* the same for the sessions that hold their username's registry entry
C12_AutoDisconnectOfHolder ==
    [][\A c \in Conns :
         AutoDisconnectFire(c) =>
            /\ (connState[c] = "open" /\ activeConnections[connUser[c]] = c)
                  => Closed(connState', c)
            /\ connState[c] # "open" => connState' = connState
            /\ activeConnections' = activeConnections]_vars

\* the step in which a relay fails arms no auto-disconnect timer, closes no
\* connection and leaves the registry and the idle timers as they were
C13_FailedRelayArmsNothing ==
    \A c \in Conns :
        RelayFail(c) =>
            /\ autoDisconnect' = autoDisconnect
            /\ connState' = connState
            /\ activeConnections' = activeConnections
            /\ idleTimer' = idleTimer

\* an auto-disconnect timer is armed only by the step in which a relay succeeds
C13_ArmedBySuccess ==
    \A c \in Conns :
        autoDisconnect'[c] > autoDisconnect[c] => RelayOk(c)

\* an entry leaves the registry only by a release handler (disconnect), an idle
\* callback, a login (replacement or pruning) or the sweep, and an open connection
\* is closed only by its device, an idle callback, a replacing login or an
\* auto-disconnect callback
C13_StaysUntil ==
    \A c \in {d \in Conns : connUser[d] # NoUser} :
        /\ (activeConnections[connUser[c]] = c /\ activeConnections'[connUser[c]] # c)
              => \/ \E d \in Conns : Release(d) \/ IdleFire(d)
                 \/ \E d \in Conns, p \in Passwords : Login(d, connUser[c], p)
                 \/ IsStale(c)
        /\ (connState[c] = "open" /\ connState'[c] # "open")
              => \/ ClientDisconnect(c)
                 \/ IdleFire(c)
                 \/ AutoDisconnectFire(c)
                 \/ \E d \in Conns, p \in Passwords : Login(d, connUser[c], p)

\* C13: a relay that fails arms no auto-disconnect timer; only a relay that
\* succeeds arms one; and the session stays in the registry, its connection open,
\* until a disconnect, an idle expiry, a replacing login or an auto-disconnect
\* callback.
C13_FailedRelayKeepsSession ==
    [][C13_FailedRelayArmsNothing /\ C13_ArmedBySuccess /\ C13_StaysUntil]_vars

\* a session has sent files whose relays are awaited or have failed; no
\* auto-disconnect timer is armed, the session is open and holds its entry
C13_Witness ==
    \E c \in Conns :
        /\ connState[c] = "open" /\ activeConnections[connUser[c]] = c
        /\ uploading[c] = 1 /\ autoDisconnect[c] = 0
        /\ ENABLED RelayFail(c)

\* the login of connection c with username u was rejected in this step
Rejected(c, u) ==
    /\ \E p \in Passwords : Login(c, u, p)
    /\ loginReply'[c] # "ok"

\* C14: a login that is rejected (capacity, unknown user, wrong secret) leaves
\* the connection unauthenticated, records no entry for the offered username, arms
\* no idle timer, closes no connection, and leaves the entry of a live session of
\* that username in the registry (only entries of dead connections are pruned).
C14_RejectedLoginRecordsNothing ==
    [][\A c \in Conns, u \in Usernames :
         Rejected(c, u) =>
            /\ connState' = connState
            /\ idleTimer' = idleTimer
            /\ activeConnections'[u] # c
            /\ \A v \in Usernames :
                  activeConnections'[v] \in {activeConnections[v], NoConn}
            /\ \A v \in Usernames :
                  (activeConnections[v] # NoConn /\ ~IsStale(activeConnections[v]))
                     => activeConnections'[v] = activeConnections[v]]_vars

\* a known user offered a wrong secret while a session of that user was open: the
\* login was rejected, the session is still open and still holds its entry
C14_Witness ==
    \E c, d \in Conns :
        /\ loginReply[c] = "badpw" /\ connState[c] = "unauth" /\ idleTimer[c] = 0
        /\ connUser[d] = connUser[c] /\ connState[d] = "open"
        /\ activeConnections[connUser[c]] = d

\* C15 (as claimed): in the same registry state, the reply to a login with an
\* unknown username equals the reply to a login with a known username and a wrong
\* secret.
C15_Indistinguishable ==
    [][\A c \in Conns, u \in Usernames \ KnownUsers, p \in Passwords :
         Login(c, u, p) =>
            \A k \in KnownUsers :
                \A q \in Passwords \ {userMappings[k]} :
                    loginReply'[c] = LoginOutcome(PruneStale(activeConnections), k, q)]_vars

\* a connection that is not authenticated has no relay awaited, no timer armed and
\* no registry entry
C16_NothingPending ==
    \A c \in Conns :
        connState[c] = "unauth" =>
            /\ uploading[c] = 0 /\ autoDisconnect[c] = 0 /\ idleTimer[c] = 0
            /\ \A u \in Usernames : activeConnections[u] # c

\* a file is taken, and its relay settles, only on a connection whose login was accepted
C16_OnlyAfterLogin ==
    \A c \in Conns :
        (Stor(c) \/ RelayOk(c) \/ RelayFail(c) \/ uploading'[c] > uploading[c])
            => loginReply[c] = "ok" /\ connState[c] # "unauth"

\* C16: no file is accepted from a connection whose login was rejected: such a
\* connection stays unauthenticated, no STOR of it is handled, and no upload is
\* dispatched or awaited for it.
C16_NoFileWithoutLogin == [](C16_NothingPending) /\ [][C16_OnlyAfterLogin]_vars

\* one connection was rejected for a wrong secret and has nothing pending, while
\* the file of an authenticated connection is being relayed
C16_Witness ==
    \E c, d \in Conns :
        /\ loginReply[c] = "badpw" /\ connState[c] = "unauth" /\ uploading[c] = 0
        /\ connState[d] = "open" /\ uploading[d] = 1

(***************************************************************************)
(* Claims about the order of uploads (SpecQueue).                          *)
(***************************************************************************)

\* the items of a snapshot are in the order in which they were enqueued (files are
\* numbered by arrival), and the items dispatched so far are its first drains[d].i
C17_PrefixInOrder ==
    \A d \in DrainIds :
        LET snap == drains[d].snap IN
        /\ \A j, k \in 1..Len(snap) : j < k => snap[j].file < snap[k].file
        /\ \A k \in 1..Len(snap) : attempts[snap[k].file] >= 1 <=> k <= drains[d].i

\* a step dispatches at most the next item of a drain, and only that item's upload
C17_NextInOrder ==
    \A d \in DrainIds :
        /\ drains'[d].i \in {drains[d].i, drains[d].i + 1}
        /\ drains'[d].i = drains[d].i + 1 =>
              /\ attempts[drains[d].snap[drains'[d].i].file] = 0
              /\ attempts'[drains[d].snap[drains'[d].i].file] = 1

\* C17: within one drain the items are dispatched to the remote upload one at a
\* time, strictly in the order in which they were enqueued.
C17_FifoWithinDrain == [](C17_PrefixInOrder) /\ [][C17_NextInOrder]_vars

\* a drain over three files has dispatched the first two and not yet the third
C17_Witness ==
    \E d \in DrainIds :
        /\ Len(drains[d].snap) = 3
        /\ drains[d].i = 2 /\ drains[d].pc = "upload"
        /\ attempts[drains[d].snap[1].file] = 1
        /\ attempts[drains[d].snap[2].file] = 1
        /\ attempts[drains[d].snap[3].file] = 0

\* the files of drain d that have been dispatched
DispatchedOf(d) == {drains[d].snap[k].file : k \in 1..drains[d].i}

\* C18 (as claimed): an item that was enqueued after a drain took its snapshot is
\* dispatched only after every item of that snapshot has been dispatched.
C18_LaterAfterEarlierSnapshot ==
    \A d, e \in DrainIds :
        (d < e /\ DispatchedOf(e) # {}) => drains[d].i = Len(drains[d].snap)

\* C19: no enqueued transfer is lost: with timers that fire and uploads that
\* settle, every file that was enqueued is eventually dispatched to the remote
\* upload by some drain, and while it waits in the pending set a debounce timer is
\* armed.
C19_NoTransferLost ==
    /\ [](uploadQueue # <<>> => armedTimers > 0)
    /\ \A f \in Files : (InQueue(f) # {}) ~> (attempts[f] >= 1)

\* the last file arrived while a drain over the earlier ones was in flight, and a
\* later drain has dispatched it
C19_Witness ==
    /\ Len(drains) = 2
    /\ Len(drains[1].snap) = MaxFiles - 1
    /\ drains[2].snap[1].file = MaxFiles
    /\ attempts[MaxFiles] = 1

(***************************************************************************)
(* Claims about the idle timer under time (SpecTimed).                     *)
(***************************************************************************)

\* a connection has at most one armed idle timer, an open one has exactly one, and
\* the armed timer is as old as the session has been quiet
C20_OneFreshTimer ==
    \A c \in Conns :
        /\ idleTimer[c] <= 1
        /\ connState[c] = "open" => idleTimer[c] = 1
        /\ idleAge[c] = quietFor[c]

\* a STOR or a listed command leaves exactly one armed idle timer, newly armed
C20_TrafficRearms ==
    \A c \in Conns :
        (Stor(c) \/ Command(c)) => idleTimer'[c] = 1 /\ idleAge'[c] = 0

\* the idle callback of a connection runs only when the session has been quiet
\* for a whole idle period
C20_ExpiresOnlyWhenQuiet ==
    \A c \in Conns :
        IdleExpire(c) => quietFor[c] = IdlePeriod

\* C20: every STOR and every listed command cancels the session's idle timer and
\* arms one new timer, so a session has at most one armed idle timer, and the idle
\* callback closes a session only when a whole idle period has passed since its
\* last traffic event.
C20_TrafficResetsIdle ==
    /\ [](C20_OneFreshTimer)
    /\ [][C20_TrafficRearms /\ C20_ExpiresOnlyWhenQuiet]_vars

\* a session sent a command when its idle timer was about to expire: it is open,
\* with its newly armed timer, while a session that logged in at the same time and
\* stayed quiet was closed by its idle timer
C20_Witness ==
    \E c, d \in Conns :
        /\ connState[c] = "open" /\ idleTimer[c] = 1 /\ idleAge[c] = 1
        /\ activeConnections[connUser[c]] = c
        /\ loginReply[d] = "ok" /\ connState[d] = "closing" /\ idleTimer[d] = 0
        /\ connUser[d] # connUser[c]

(***************************************************************************)
(* Claims about stale timers and the sweep (Spec).                         *)
(***************************************************************************)

\* the session of connection c has been released: the connection is closed and
\* the registry does not hold it
Released(c) == Closed(connState, c) /\ activeConnections[connUser[c]] # c

\* C21 (as claimed): a timer callback of a session that has been released closes
\* no connection and removes no registry entry.
C21_NoStaleTimerActs ==
    [][\A c \in Conns :
         (Released(c) /\ (IdleFire(c) \/ AutoDisconnectFire(c)))
            => /\ connState' = connState
               /\ activeConnections' = activeConnections]_vars

\* the same for the auto-disconnect callback alone
C21_StaleAutoDisconnectHarmless ==
    [][\A c \in Conns :
         (Released(c) /\ AutoDisconnectFire(c))
            => /\ connState' = connState
               /\ activeConnections' = activeConnections]_vars

\* a run of the sweep removes the entries of dead connections, keeps every other
\* entry and touches nothing but the registry
C22_SweepStep ==
    Sweep =>
        /\ \A u \in Usernames :
              activeConnections'[u] =
                 IF activeConnections[u] # NoConn /\ connState[activeConnections[u]] = "dead"
                 THEN NoConn ELSE activeConnections[u]
        /\ \A u \in Usernames :
              activeConnections'[u] # NoConn => connState'[activeConnections'[u]] # "dead"
        /\ connState' = connState /\ idleTimer' = idleTimer
        /\ autoDisconnect' = autoDisconnect /\ uploading' = uploading

\* C22: each run of the periodic sweep removes every registry entry whose
\* connection is dead and leaves every entry whose connection is alive (open or
\* closing) unchanged; after the run no entry of a dead connection remains.
C22_SweepRemovesDead == [][C22_SweepStep]_vars

\* the device of the one session dropped its connection and a sweep removed the
\* entry before any release handler ran: the idle timer is still armed
C22_Witness ==
    \E c \in Conns :
        /\ loginReply[c] = "ok" /\ connState[c] = "dead" /\ idleTimer[c] = 1
        /\ activeConnections[connUser[c]] = NoConn
        /\ \A d \in Conns \ {c} : loginReply[d] = "none"

(***************************************************************************)
(* Claims about failed items, empty triggers and the debounce (queue).     *)
(***************************************************************************)

\* a file whose upload failed is not in the pending set, keeps its local file and
\* was uploaded once
C23_FailedIsGone ==
    \A f \in Files :
        remote[f] = "failed" =>
            /\ InQueue(f) = {}
            /\ localFile[f] = "staged"
            /\ attempts[f] = 1

\* the pending set takes in only the file that is being received, never a file
\* that was dispatched
C23_OnlyNewItems ==
    \A k \in 1..Len(uploadQueue') :
        \/ \E j \in 1..Len(uploadQueue) : uploadQueue[j] = uploadQueue'[k]
        \/ uploadQueue'[k].file = received + 1 /\ attempts[uploadQueue'[k].file] = 0

\* C23: an item whose upload failed left the pending set when its drain took its
\* snapshot and is not inserted again: it is absent from the pending set, its
\* local file stays, and no later drain uploads it.
C23_FailedNotReinserted == [](C23_FailedIsGone) /\ [][C23_OnlyNewItems]_vars

\* the upload of a file failed in a first drain; a later drain over a later file
\* has ended and the failed file was uploaded once
C23_Witness ==
    /\ Len(drains) = 2
    /\ drains[1].pc = "done" /\ drains[2].pc = "done"
    /\ remote[drains[1].snap[1].file] = "failed"
    /\ attempts[drains[1].snap[1].file] = 1
    /\ uploadQueue = <<>>

\* a step that runs processUploadQueue on an empty pending set starts no drain,
\* dispatches no upload, deletes no file, leaves the pending set empty and arms
\* no timer
C24_EmptyRun ==
    (uploadQueue = <<>> /\ (TimerFire \/ OtherTrigger)) =>
        /\ drains' = drains
        /\ attempts' = attempts
        /\ localFile' = localFile /\ remote' = remote
        /\ uploadQueue' = <<>>
        /\ armedTimers' <= armedTimers
        /\ OtherTrigger => processTimer' = processTimer /\ armedTimers' = armedTimers

C25_OneFreshTimer ==
    /\ armedTimers <= 1
    /\ armedTimers = 1 <=> processTimer = 1
    /\ debounceAge = sinceEnqueue

\* an enqueue leaves exactly one armed timer, newly set
C25_EnqueueRestarts ==
    \A c \in QConns :
        (QStor(c) /\ Len(uploadQueue') > Len(uploadQueue))
            => armedTimers' = 1 /\ debounceAge' = 0

\* the timer starts a drain only when a whole quiet period has passed since the
\* last enqueue
C25_DrainAfterQuiet ==
    (TimerExpire \/ Len(drains') > Len(drains)) => sinceEnqueue = QuietPeriod

\* C25: every enqueue cancels the armed debounce timer and arms a new one, so at
\* most one debounce timer is armed at any time, and a drain started by the timer
\* starts only when a full quiet period has passed since the most recent enqueue.
C25_DebounceRestarts ==
    /\ [](C25_OneFreshTimer)
    /\ [][C25_EnqueueRestarts /\ C25_DrainAfterQuiet]_vars

\* a drain started by the timer took two files: the second one was enqueued while
\* the timer of the first was armed, and the restarted timer has expired
C25_Witness ==
    /\ Len(drains) = 1
    /\ Len(drains[1].snap) = 2
    /\ armedTimers = 0

\* C26 (as claimed): in a drain, an item whose upload succeeded and whose local
\* delete then failed is still recorded as a success: the step that settles it
\* adds one to the success count of the drain and nothing to its failure count.
C26_DeleteFailureIsSuccess ==
    [][\A d \in 1..Len(drains) :
          UploadSettles(d, "unlinkfail")
              => /\ drains'[d].success = drains[d].success + 1
                 /\ drains'[d].failed = drains[d].failed]_vars

\* an upload that times out or fails otherwise leaves the local file where it is
\* and is counted as a failure of the drain
C27_TimeoutKeepsFile ==
    \A d \in 1..Len(drains) :
        UploadSettles(d, "fail")
            => /\ localFile'[drains[d].snap[drains[d].i].file] = "staged"
               /\ drains'[d].failed = drains[d].failed + 1

\* C27: every upload call settles (the request carries a timeout), a call that
\* timed out is a failure that keeps the local file, and so every drain that has
\* started over its snapshot reaches its batch summary.
C27_DrainTerminates ==
    /\ [][C27_TimeoutKeepsFile]_vars
    /\ \A d \in 1..MaxFiles :
           (Len(drains) >= d) ~> (Len(drains) >= d /\ drains[d].pc = "done")

\* a drain over two items has reached its summary although an upload of it failed;
\* the file of the failed item is still there
C27_Witness ==
    \E d \in 1..Len(drains) :
        /\ drains[d].pc = "done"
        /\ Len(drains[d].snap) = 2
        /\ \E k \in 1..2 : /\ remote[drains[d].snap[k].file] = "failed"
                            /\ localFile[drains[d].snap[k].file] = "staged"

\* C28 (as claimed): when the received file cannot be statted at transfer-complete
\* time, nothing is enqueued, no upload is dispatched and no timer is armed for
\* it, the handler contains the failure (it returns), and the session and the
\* other sessions, timers and drains go on as they were.
C28_StatFailureContained ==
    [][\A c \in QConns :
          QStorStatFails(c)
              => /\ uploadQueue' = uploadQueue
                 /\ attempts' = attempts
                 /\ storExit' = "returned"
                 /\ qState' = qState /\ userSessions' = userSessions
                 /\ armedTimers' = armedTimers /\ drains' = drains]_vars

\* the directory check or the directory creation of the call under way fails
DirectoryFails ==
    \/ client.check \in {"http", "timeout", "transport"}
    \/ client.check = "404" /\ client.create # "ok"

\* C29: a failure of the directory check or creation never fails the upload by
\* itself: a call with a local file that has ended has sent the upload request,
\* whatever the directory requests ended with, and it resolved exactly when that
\* request succeeded; a call still under way after such a failure is at the
\* upload request, with a warning logged.
C29_DirectoryFailureIgnored ==
    /\ (client.pc \in {"resolved", "rejected"} /\ client.local = "present")
          => /\ client.sent
             /\ client.pc = "resolved" <=> client.request = "ok"
             /\ client.warned <=> DirectoryFails
    /\ client.warned => client.pc \in {"send", "resolved", "rejected"}
    /\ client.pc = "resolved" => client.local = "present"

\* the directory was missing and its creation was refused, and the call resolved
C29_Witness ==
    /\ client.pc = "resolved"
    /\ client.check = "404" /\ client.create = "http"
    /\ client.warned /\ client.sent

\* the items held for file f, pending or in a snapshot
ItemsOf(f) ==
    {uploadQueue[k] : k \in {j \in 1..Len(uploadQueue) : uploadQueue[j].file = f}}
        \cup UNION {{drains[d].snap[k] : k \in {j \in 1..Len(drains[d].snap) :
                                                   drains[d].snap[j].file = f}} :
                    d \in 1..Len(drains)}

\* every item held, and so every upload dispatched from a snapshot, names the
\* path made of the prefix of the item's user and the name of the file
C30_OwnPrefix ==
    \A f \in Files : \A it \in ItemsOf(f) :
        /\ it.username \in KnownUsers
        /\ it.egnytePath = <<EgnytePath[it.username], f>>

\* a session is the session of the user whose login on that connection was
\* accepted, for as long as the connection is open
C30_SessionOfLogin ==
    \A c \in QConns :
        /\ \A u \in Usernames, p \in Passwords :
              (QLogin(c, u, p) /\ qState'[c] = "open")
                  => QAuthenticated(u, p) /\ userSessions'[c] = u
        /\ (qState[c] = "open" /\ qState'[c] = "open") => userSessions'[c] = userSessions[c]

\* the file received on connection c is enqueued for the user of c's session,
\* and an item, once enqueued, is never changed
C30_EnqueuedForSession ==
    /\ \A c \in QConns, f \in Files :
          (QStor(c) /\ f = received + 1)
              => ItemsOf(f)' = {[file |-> f, username |-> userSessions[c],
                                 egnytePath |-> <<EgnytePath[userSessions[c]], f>>]}
    /\ \A f \in 1..received : ItemsOf(f)' = ItemsOf(f)

Newer(d, c) ==
    /\ c # d
    /\ connUser[d] # NoUser
    /\ connUser[c] = connUser[d]
    /\ activeConnections[connUser[d]] = d

\* C32 (as claimed): a close, end or error event, an idle timer or an
\* auto-disconnect timer of an older connection of a username neither removes the
\* registry entry of a newer session of that username nor closes its connection.
C32_OldEventsSpareNewSession ==
    [][\A c, d \in Conns :
         (Newer(d, c) /\ (Release(c) \/ IdleFire(c) \/ AutoDisconnectFire(c)))
            => /\ activeConnections'[connUser[d]] = d
               /\ connState'[d] = connState[d]]_vars

\* the connections that are authenticated and open
OpenConns == {c \in Conns : connState[c] = "open"}

\* C33 (as claimed): every open authenticated connection holds the registry entry
\* of its username, and the number of open authenticated connections is at most
\* the configured maximum.
C33_OpenWithinLimit ==
    /\ \A c \in OpenConns : activeConnections[connUser[c]] = c
    /\ Cardinality(OpenConns) <= maxConnections

\* the second half of C33 alone
C33_CountWithinLimit == Cardinality(OpenConns) <= maxConnections

\* C34: in the debounced coordinator, whenever the pending set is not empty the
\* handle processTimer is set, and it is the handle of the one timer that is armed.
C34_PendingHasTimer ==
    uploadQueue # <<>> => (processTimer # 0 /\ armedTimers = 1)

\* a file is pending with the timer set while the drain that took the earlier
\* file, and reset the handle, still awaits its upload
C34_Witness ==
    /\ Len(uploadQueue) = 1
    /\ processTimer = 1
    /\ Len(drains) = 1 /\ drains[1].pc = "upload"

\* C35 (as claimed): the auto-disconnect callback closes an open connection only
\* when no relay of a file received on that connection is in flight.
C35_NoCloseDuringRelay ==
    [][\A c \in Conns :
         (AutoDisconnectFire(c) /\ connState[c] = "open" /\ Closed(connState', c))
            => uploading[c] = 0]_vars

(***************************************************************************)
(* Claims about the disconnect-triggered variant (SpecSimple).             *)
(***************************************************************************)

\* C31 (as claimed): in the disconnect-triggered variant every queued item is
\* attempted at most once over all runs of processUploads: a failed item is not
\* attempted again by a later run, and two runs never both upload the same item.
C31_AtMostOnce ==
    \A f \in Files : simpleAttempts[f] <= 1

=============================================================================
